---- MODULE Spec2Model ----
(***************************************************************************)
(* Model of backend/server.py: the MoodPet API over a document store.      *)
(* The store collections are the state; every route handler is a sequence  *)
(* of store calls, and each `await db...` is one atomic step of a request, *)
(* so the steps of concurrent requests interleave at the awaits.           *)
(* Not modelled: pet names, timestamps and document uuids of mood entries  *)
(* and shop items (no handler reads them back to decide anything), and the *)
(* routes get_all_pets, get_mood_entries and get_achievements.             *)
(***************************************************************************)
EXTENDS Integers, Sequences, FiniteSets, TLC

VARIABLES pets, mood_entries, shop_items, req

vars == <<pets, mood_entries, shop_items, req>>

(* ------------------------------ bounds --------------------------------- *)
MaxExp == 25          \* cap on stored experience in Spec
SeqMaxExp == 300      \* cap on stored experience in SeqSpec
RaceMaxExp == 150     \* cap on stored experience in RaceSpec
MaxMoods == 1         \* cap on the size of the mood_entries collection

(* ------------------------------ values --------------------------------- *)
Workers == {"w1", "w2"}
PetIds == {"p1", "p2"}

Null == [null |-> TRUE]

Min(a, b) == IF a < b THEN a ELSE b
Max(a, b) == IF a > b THEN a ELSE b

\* class Emotion
Emotion == {"happy", "sad", "angry", "anxious", "calm", "excited"}

\* class PetStage, in declaration order
PetStage == <<"egg", "baby", "adult", "legendary">>

StageRank(s) == CHOOSE i \in 1..Len(PetStage) : PetStage[i] = s

\* MoodEntry.intensity: Field(ge=1, le=10)
IntensityMin == 1
IntensityMax == 10
Intensity == IntensityMin..IntensityMax

\* class Pet: the defaults of a new document
Pet == [stage |-> "egg", happiness |-> 50, health |-> 100, coins |-> 100,
        experience |-> 0]

\* class PetUpdate without name: the dicts update_data can be
\* (a field that is None is left out of the dict)
UpdateValues == {-20, 0, 150}
PetUpdate == UNION {[S -> UpdateValues] : S \in SUBSET {"happiness", "health", "coins"}}

(* --------------------------- document store ---------------------------- *)
\* find_one({"id": id})
find_one(coll, id) == coll[id]

\* $set of a partial document
SetFields(doc, set) ==
    [f \in DOMAIN doc |-> IF f \in DOMAIN set THEN set[f] ELSE doc[f]]

\* $inc of a partial document
IncFields(doc, inc) ==
    [f \in DOMAIN doc |-> IF f \in DOMAIN inc THEN doc[f] + inc[f] ELSE doc[f]]

\* update_one as it would be with upsert=True: a missing document is created
update_one_upsert(coll, id, set, inc) ==
    [coll EXCEPT ![id] = IncFields(SetFields(IF @ = Null THEN Pet ELSE @, set), inc)]

\* update_one({"id": id}, {"$set": set, "$inc": inc}): no upsert
update_one(coll, id, set, inc) ==
    IF coll[id] = Null THEN coll
    ELSE [coll EXCEPT ![id] = IncFields(SetFields(@, set), inc)]

NoFields == [f \in {} |-> 0]

(* ----------------------------- handlers -------------------------------- *)
\* A request slot: the handler it runs (op), where it is between two awaits
\* (pc), its path/body parameters (pid, arg) and its local variables (pet, n);
\* once it has returned, what is left is the response: the status, and the
\* body of create_mood_entry (arg) and of get_shop_items (items, with the
\* number n of items the call seeded). The pet in the body of the other
\* responses is left out.
Idle == [op |-> "none", pc |-> "idle", pid |-> "-", arg |-> NoFields,
         pet |-> Null, n |-> 0, status |-> 0,
         items |-> <<>>]

OK == 200
NotFound == 404

Free(w) == req[w].pc \in {"idle", "done"}

Allocated == {id \in PetIds : pets[id] # Null}

\* uuid.uuid4(): an identifier no document has yet; which one is immaterial
uuid4 == CHOOSE id \in PetIds : pets[id] = Null

\* create_pet: insert_one of a default Pet under a fresh uuid4 (the id space
\* is never exhausted: one identifier always stays unallocated)
create_pet(w, id) ==
    /\ Free(w)
    /\ Cardinality(Allocated) + 1 < Cardinality(PetIds)
    /\ id = uuid4
    /\ pets' = [pets EXCEPT ![id] = Pet]
    /\ req' = [req EXCEPT ![w] = [Idle EXCEPT !.op = "create_pet", !.pc = "done",
                                    !.pid = id, !.status = OK]]
    /\ UNCHANGED <<mood_entries, shop_items>>

\* get_pet: find_one, 404 when there is no document
get_pet(w, id) ==
    /\ Free(w)
    /\ LET pet == find_one(pets, id) IN
       req' = [req EXCEPT ![w] = [Idle EXCEPT !.op = "get_pet", !.pc = "done",
                 !.pid = id,
                 !.status = IF pet = Null THEN NotFound ELSE OK]]
    /\ UNCHANGED <<pets, mood_entries, shop_items>>

\* update_pet, `if update_data:` taken: update_one($set update_data)
update_pet_set(w, id, update_data) ==
    /\ Free(w)
    /\ update_data # NoFields
    /\ pets' = update_one(pets, id, update_data, NoFields)
    /\ req' = [req EXCEPT ![w] = [Idle EXCEPT !.op = "update_pet", !.pc = "updated",
                                    !.pid = id, !.arg = update_data]]
    /\ UNCHANGED <<mood_entries, shop_items>>

\* update_pet, the find_one after the update, 404 when there is no document
update_pet_find(w) ==
    /\ req[w].op = "update_pet" /\ req[w].pc = "updated"
    /\ LET pet == find_one(pets, req[w].pid) IN
       req' = [req EXCEPT ![w].pc = "done", ![w].arg = NoFields,
                 ![w].status = IF pet = Null THEN NotFound ELSE OK]
    /\ UNCHANGED <<pets, mood_entries, shop_items>>

\* update_pet with an empty update_data: the find_one is the first store call
update_pet_empty(w, id) ==
    /\ Free(w)
    /\ LET pet == find_one(pets, id) IN
       req' = [req EXCEPT ![w] = [Idle EXCEPT !.op = "update_pet", !.pc = "done",
                 !.pid = id,
                 !.status = IF pet = Null THEN NotFound ELSE OK]]
    /\ UNCHANGED <<pets, mood_entries, shop_items>>

\* feed_pet / play_with_pet / train_pet: the first find_one and the 404
action_find(w, op, id) ==
    /\ Free(w)
    /\ LET pet == find_one(pets, id) IN
       req' = [req EXCEPT ![w] =
                 IF pet = Null
                 THEN [Idle EXCEPT !.op = op, !.pc = "done", !.pid = id,
                                   !.status = NotFound]
                 ELSE [Idle EXCEPT !.op = op, !.pc = "found", !.pid = id,
                                   !.pet = pet]]
    /\ UNCHANGED <<pets, mood_entries, shop_items>>

\* the update as it would be with coins and experience sent as $inc of the
\* gains instead of $set of the sums
action_update_inc(w, op, updates) ==
    /\ req[w].op = op /\ req[w].pc = "found"
    /\ pets' = update_one(pets, req[w].pid,
                 [f \in DOMAIN updates \ {"coins", "experience"} |-> updates[f]],
                 [coins |-> updates.coins - req[w].pet.coins,
                  experience |-> updates.experience - req[w].pet.experience])
    /\ req' = [req EXCEPT ![w].pc = "updated"]
    /\ UNCHANGED <<mood_entries, shop_items>>

\* feed_pet / play_with_pet / train_pet: update_one($set updates)
action_update(w, op, updates) ==
    /\ req[w].op = op /\ req[w].pc = "found"
    /\ pets' = update_one(pets, req[w].pid, updates, NoFields)
    /\ req' = [req EXCEPT ![w].pc = "updated"]
    /\ UNCHANGED <<mood_entries, shop_items>>

\* feed_pet / play_with_pet / train_pet: the second find_one and the response
action_return(w, op) ==
    /\ req[w].op = op /\ req[w].pc = "updated"
    /\ req' = [req EXCEPT ![w].pc = "done", ![w].status = OK, ![w].pet = Null]
    /\ UNCHANGED <<pets, mood_entries, shop_items>>

\* feed_pet's updates as they would be without the min(100, ...)
feed_updates_unclamped(pet) ==
    [happiness |-> pet.happiness + 15,
     health |-> pet.health + 10,
     coins |-> pet.coins + 5,
     experience |-> pet.experience + 10]

\* feed_pet: the updates dict, from the pet that was read
feed_updates(pet) ==
    [happiness |-> Min(100, pet.happiness + 15),
     health |-> Min(100, pet.health + 10),
     coins |-> pet.coins + 5,
     experience |-> pet.experience + 10]

\* play_with_pet: the updates dict
play_updates(pet) ==
    [happiness |-> Min(100, pet.happiness + 20),
     coins |-> pet.coins + 8,
     experience |-> pet.experience + 15]

\* the evolution check as it would be with > for >=
evolution_strict(experience, current_stage) ==
    IF experience > 300 /\ current_stage = "adult" THEN [stage |-> "legendary"]
    ELSE IF experience > 150 /\ current_stage = "baby" THEN [stage |-> "adult"]
    ELSE IF experience > 50 /\ current_stage = "egg" THEN [stage |-> "baby"]
    ELSE NoFields

\* the evolution check as it would be without the tests of current_stage
evolution_by_experience(experience, current_stage) ==
    IF experience >= 300 THEN [stage |-> "legendary"]
    ELSE IF experience >= 150 THEN [stage |-> "adult"]
    ELSE IF experience >= 50 THEN [stage |-> "baby"]
    ELSE NoFields

\* train_pet, "Check for evolution": the stage entry added to updates, if any
evolution(experience, current_stage) ==
    IF experience >= 300 /\ current_stage = "adult" THEN [stage |-> "legendary"]
    ELSE IF experience >= 150 /\ current_stage = "baby" THEN [stage |-> "adult"]
    ELSE IF experience >= 50 /\ current_stage = "egg" THEN [stage |-> "baby"]
    ELSE NoFields

\* train_pet: the updates dict
train_updates(pet) ==
    LET updates == [happiness |-> Min(100, pet.happiness + 10),
                    health |-> Min(100, pet.health + 5),
                    coins |-> pet.coins + 12,
                    experience |-> pet.experience + 25]
    IN  updates @@ evolution(updates.experience, pet.stage)

feed_pet_find(w, id) == action_find(w, "feed_pet", id)
feed_pet_update(w) == action_update(w, "feed_pet", feed_updates(req[w].pet))
feed_pet_return(w) == action_return(w, "feed_pet")

play_with_pet_find(w, id) == action_find(w, "play_with_pet", id)
play_with_pet_update(w) == action_update(w, "play_with_pet", play_updates(req[w].pet))
play_with_pet_return(w) == action_return(w, "play_with_pet")

train_pet_find(w, id) == action_find(w, "train_pet", id)
train_pet_update(w) == action_update(w, "train_pet", train_updates(req[w].pet))
train_pet_return(w) == action_return(w, "train_pet")

\* create_mood_entry: happiness_change
happiness_change(emotion, intensity) ==
    IF emotion \in {"happy", "excited", "calm"} THEN intensity
    ELSE IF emotion \in {"sad", "angry", "anxious"} THEN (-intensity) \div 2
    ELSE 0

\* create_mood_entry: new_happiness
new_happiness(pet, emotion, intensity) ==
    Max(0, Min(100, pet.happiness + happiness_change(emotion, intensity)))

\* create_mood_entry: coins_earned
coins_earned(intensity) == 10 + intensity

\* create_mood_entry: insert_one of the entry, before any look at the pet
create_mood_entry_insert(w, id, emotion, intensity) ==
    /\ Free(w)
    /\ mood_entries' = Append(mood_entries, id)
    /\ req' = [req EXCEPT ![w] = [Idle EXCEPT !.op = "create_mood_entry",
                 !.pc = "inserted", !.pid = id,
                 !.arg = [emotion |-> emotion, intensity |-> intensity]]]
    /\ UNCHANGED <<pets, shop_items>>

\* create_mood_entry: find_one of the pet; without a pet the entry is returned
create_mood_entry_find(w) ==
    /\ req[w].op = "create_mood_entry" /\ req[w].pc = "inserted"
    /\ LET pet == find_one(pets, req[w].pid) IN
       req' = [req EXCEPT ![w].pet = pet,
                 ![w].pc = IF pet = Null THEN "done" ELSE "found",
                 ![w].status = IF pet = Null THEN OK ELSE 0]
    /\ UNCHANGED <<pets, mood_entries, shop_items>>

\* the update as it would be with coins and experience as $set of sums over
\* the pet that was read, like the action handlers
create_mood_entry_update_rmw(w) ==
    /\ req[w].op = "create_mood_entry" /\ req[w].pc = "found"
    /\ pets' = update_one(pets, req[w].pid,
                 [happiness |-> new_happiness(req[w].pet, req[w].arg.emotion,
                                              req[w].arg.intensity),
                  coins |-> req[w].pet.coins + coins_earned(req[w].arg.intensity),
                  experience |-> req[w].pet.experience + 5],
                 NoFields)
    /\ req' = [req EXCEPT ![w].pc = "done", ![w].status = OK, ![w].pet = Null]
    /\ UNCHANGED <<mood_entries, shop_items>>

\* create_mood_entry: update_one($set happiness, $inc coins and experience)
create_mood_entry_update(w) ==
    /\ req[w].op = "create_mood_entry" /\ req[w].pc = "found"
    /\ pets' = update_one(pets, req[w].pid,
                 [happiness |-> new_happiness(req[w].pet, req[w].arg.emotion,
                                              req[w].arg.intensity)],
                 [coins |-> coins_earned(req[w].arg.intensity), experience |-> 5])
    /\ req' = [req EXCEPT ![w].pc = "done", ![w].status = OK, ![w].pet = Null]
    /\ UNCHANGED <<mood_entries, shop_items>>

\* get_shop_items: default_items, by name
default_items == <<"Premium Food", "Toy Ball", "Training Weights",
                   "Sparkle Background", "Rainbow Collar">>

\* the seeding test as it would be if every call seeded
must_seed_always(existing_items) == TRUE

\* get_shop_items: `if not existing_items`
must_seed(existing_items) == existing_items = <<>>

\* get_shop_items: the first find
get_shop_items_find(w) ==
    /\ Free(w)
    /\ req' = [req EXCEPT ![w] =
                 IF must_seed(shop_items)
                 THEN [Idle EXCEPT !.op = "get_shop_items", !.pc = "seeding"]
                 ELSE [Idle EXCEPT !.op = "get_shop_items", !.pc = "done",
                                   !.status = OK, !.items = shop_items]]
    /\ UNCHANGED <<pets, mood_entries, shop_items>>

\* get_shop_items: one insert_one of the seeding loop
get_shop_items_insert(w) ==
    /\ req[w].op = "get_shop_items" /\ req[w].pc = "seeding"
    /\ req[w].n < Len(default_items)
    /\ shop_items' = Append(shop_items, default_items[req[w].n + 1])
    /\ req' = [req EXCEPT ![w].n = @ + 1]
    /\ UNCHANGED <<pets, mood_entries>>

\* get_shop_items: the find after the seeding loop
get_shop_items_refind(w) ==
    /\ req[w].op = "get_shop_items" /\ req[w].pc = "seeding"
    /\ req[w].n = Len(default_items)
    /\ req' = [req EXCEPT ![w].pc = "done", ![w].status = OK,
                 ![w].items = shop_items]
    /\ UNCHANGED <<pets, mood_entries, shop_items>>

(* --------------------------- specifications ---------------------------- *)
Init ==
    /\ pets = [id \in PetIds |-> Null]
    /\ mood_entries = <<>>
    /\ shop_items = <<>>
    /\ req = [w \in Workers |-> Idle]

\* the experience every pet has after the step stays within cap
Capped(cap) == \A id \in PetIds : pets'[id] # Null => pets'[id].experience <= cap

\* The next step of the request in slot w, or a new request in a free slot,
\* with the request bodies drawn from moods and updates.
Step(w, cap, moods, updates) ==
    \/ \E id \in PetIds : create_pet(w, id)
    \/ \E id \in PetIds : get_pet(w, id)
    \/ \E id \in PetIds, update_data \in updates : update_pet_set(w, id, update_data)
    \/ update_pet_find(w)
    \/ \E id \in PetIds : update_pet_empty(w, id)
    \/ \E id \in PetIds : feed_pet_find(w, id)
    \/ feed_pet_update(w) /\ Capped(cap)
    \/ feed_pet_return(w)
    \/ \E id \in PetIds : play_with_pet_find(w, id)
    \/ play_with_pet_update(w) /\ Capped(cap)
    \/ play_with_pet_return(w)
    \/ \E id \in PetIds : train_pet_find(w, id)
    \/ train_pet_update(w) /\ Capped(cap)
    \/ train_pet_return(w)
    \/ \E id \in PetIds, m \in moods :
          /\ Len(mood_entries) < MaxMoods
          /\ create_mood_entry_insert(w, id, m[1], m[2])
    \/ create_mood_entry_find(w)
    \/ create_mood_entry_update(w) /\ Capped(cap)

\* The same for the shop route.
ShopStep(w) ==
    \/ get_shop_items_find(w)
    \/ get_shop_items_insert(w)
    \/ get_shop_items_refind(w)

\* request bodies of the specifications that are not about the mood arithmetic
SomeMoods == {<<"happy", 10>>, <<"sad", 5>>}
SomeUpdates == {[happiness |-> 150]}

\* Requests of the pet and mood routes in flight at once, their steps
\* interleaved at the awaits.
Next == \E w \in Workers : Step(w, MaxExp, SomeMoods, SomeUpdates)

Spec == Init /\ [][Next]_vars

\* One request at a time: a request starts when the previous one has returned.
Serial == CHOOSE w \in Workers : TRUE

SeqNext ==
    \/ Step(Serial, SeqMaxExp, SomeMoods, SomeUpdates)
    \/ ShopStep(Serial)

SeqSpec == Init /\ [][SeqNext]_vars

\* Mood requests on existing pets, each slot running one of them, with every
\* emotion and intensity the validation lets through.
MoodNext ==
    \E w \in Workers :
        \/ \E id \in PetIds : create_pet(w, id)
        \/ \E id \in PetIds, emotion \in Emotion, intensity \in Intensity :
              /\ pets[id] # Null
              /\ req[w].op # "create_mood_entry"
              /\ create_mood_entry_insert(w, id, emotion, intensity)
        \/ create_mood_entry_find(w)
        \/ create_mood_entry_update(w)

MoodSpec == Init /\ [][MoodNext]_vars

\* Train and play requests in flight at once.
RaceNext ==
    \E w \in Workers :
        \/ \E id \in PetIds : create_pet(w, id)
        \/ \E id \in PetIds : play_with_pet_find(w, id)
        \/ play_with_pet_update(w) /\ Capped(RaceMaxExp)
        \/ play_with_pet_return(w)
        \/ \E id \in PetIds : train_pet_find(w, id)
        \/ train_pet_update(w) /\ Capped(RaceMaxExp)
        \/ train_pet_return(w)

RaceSpec == Init /\ [][RaceNext]_vars

(* ------------------------------- claims -------------------------------- *)
Actions == {"feed_pet", "play_with_pet", "train_pet"}
Negative == {"sad", "angry", "anxious"}

\* the request in slot w takes this step
Acting(w) == req'[w] # req[w]

\* slot w has written its update and not yet returned
Written(w, op) == req[w].op = op /\ req[w].pc = "updated"

RECURSIVE SumCoins(_)
SumCoins(S) ==
    IF S = {} THEN 0
    ELSE LET w == CHOOSE v \in S : TRUE
         IN  coins_earned(req[w].arg.intensity) + SumCoins(S \ {w})

\* C1: in every reachable state every pet's happiness and health are within
\* [0,100].
C1_StatsInRange ==
    \A id \in PetIds :
        pets[id] # Null =>
            /\ pets[id].happiness \in 0..100
            /\ pets[id].health \in 0..100

\* C2: every change of a pet's stored stage goes to a later stage in the
\* order egg < baby < adult < legendary, also when requests interleave.
C2_StageNeverRegresses ==
    [][\A id \in PetIds :
          pets[id] # Null => StageRank(pets'[id].stage) >= StageRank(pets[id].stage)]_vars

\* C3: logging sad, angry or anxious with intensity i stores happiness
\* max(0, min(100, h - floor(i/2))), h being the happiness the handler read.
C3_NegativeMoodDelta ==
    [][\A w \in Workers :
          (/\ req[w].op = "create_mood_entry" /\ req[w].pc = "found"
           /\ req'[w].pc = "done"
           /\ req[w].arg.emotion \in Negative)
          => pets'[req[w].pid].happiness =
                Max(0, Min(100, req[w].pet.happiness - (req[w].arg.intensity \div 2)))]_vars

\* C4: a train on a pet with stage s and experience e stores experience e+25
\* and the stage of the first matching rule on e+25 (>= 300 and adult:
\* legendary; >= 150 and baby: adult; >= 50 and egg: baby; else s); and a
\* fresh pet after n = 1..6 trains and nothing else has experience 25n and
\* stage egg, baby, baby, baby, baby, adult. (Requests running one at a time,
\* a pet with experience 25n and coins 100+12n has had n trains and nothing
\* else: every other request earns more coins per experience point.)
C4_TrainStageRule ==
    /\ \A w \in Workers :
          Written(w, "train_pet") =>
              LET s == req[w].pet.stage
                  e == req[w].pet.experience + 25
              IN  /\ pets[req[w].pid].experience = e
                  /\ pets[req[w].pid].stage =
                        IF e >= 300 /\ s = "adult" THEN "legendary"
                        ELSE IF e >= 150 /\ s = "baby" THEN "adult"
                        ELSE IF e >= 50 /\ s = "egg" THEN "baby"
                        ELSE s
    /\ \A id \in PetIds, n \in 1..6 :
          (/\ pets[id] # Null
           /\ pets[id].experience = 25 * n
           /\ pets[id].coins = Pet.coins + 12 * n)
          => pets[id].stage = <<"egg", "baby", "baby", "baby", "baby", "adult">>[n]

\* the sixth train of a fresh pet has stored experience 150 and stage adult
C4_Witness ==
    \E w \in Workers :
        /\ Written(w, "train_pet")
        /\ req[w].pet.stage = "baby" /\ req[w].pet.experience = 125
        /\ req[w].pet.coins = Pet.coins + 12 * 5
        /\ pets[req[w].pid].stage = "adult"

\* C5: a pet's stage changes only in the write of a train, and then by
\* exactly one step forward, whatever the experience; feed, play, log-mood
\* and update-pet never change it.
C5_OnlyTrainAdvancesOneStage ==
    [][\A id \in PetIds :
          (pets[id] # Null /\ pets'[id].stage # pets[id].stage) =>
              /\ \E w \in Workers :
                    /\ req[w].op = "train_pet" /\ req[w].pc = "found"
                    /\ req[w].pid = id
                    /\ req'[w].pc = "updated"
              /\ StageRank(pets'[id].stage) = StageRank(pets[id].stage) + 1]_vars

\* an egg that fed and played its way to experience 275 trains to 300, the
\* threshold of legendary, and becomes baby
C5_Witness ==
    \E w \in Workers :
        /\ Written(w, "train_pet")
        /\ req[w].pet.stage = "egg"
        /\ pets[req[w].pid].experience >= 300
        /\ pets[req[w].pid].stage = "baby"

C7_MoodAwardsNeverLost ==
    \A id \in PetIds :
        pets[id] # Null =>
            LET returned == {w \in Workers :
                                /\ req[w].op = "create_mood_entry"
                                /\ req[w].pc = "done"
                                /\ req[w].pid = id}
            IN  /\ pets[id].coins = Pet.coins + SumCoins(returned)
                /\ pets[id].experience = Pet.experience + 5 * Cardinality(returned)

\* two happy moods of intensity 10 have both returned, the second having
\* read the pet before the first wrote (happiness 60, not 70), and both
\* awards are stored
C7_Witness ==
    \E id \in PetIds :
        /\ pets[id] # Null
        /\ \A w \in Workers :
              /\ req[w].op = "create_mood_entry" /\ req[w].pc = "done"
              /\ req[w].pid = id
              /\ req[w].arg.emotion = "happy" /\ req[w].arg.intensity = 10
        /\ pets[id].happiness = 60
        /\ pets[id].coins = 140

\* C8: a step of a request that addresses an identifier without a document
\* leaves the pets collection unchanged; get-pet, update-pet, feed, play and
\* train end with 404 there; log-mood inserts one entry with that identifier
\* and returns without error.
C8_MissingPet ==
    [][\A w \in Workers :
          (/\ Acting(w)
           /\ req'[w].op # "create_pet"
           /\ req'[w].pid \in PetIds
           /\ pets[req'[w].pid] = Null)
          => LET r == req'[w] IN
             /\ pets' = pets
             /\ r.op \in Actions \cup {"get_pet"} =>
                   r.pc = "done" /\ r.status = NotFound
             /\ r.op = "update_pet" =>
                   /\ r.pc = "done" => r.status = NotFound
                   /\ mood_entries' = mood_entries
             /\ r.op = "create_mood_entry" =>
                   /\ r.pc \in {"inserted", "done"}
                   /\ r.pc = "inserted" => mood_entries' = Append(mood_entries, r.pid)
                   /\ r.pc = "done" => mood_entries' = mood_entries /\ r.status = OK]_vars

\* an update-pet has returned 404 and a log-mood has returned its entry,
\* both for an identifier that has no document
C8_Witness ==
    \E w1, w2 \in Workers, id \in PetIds :
        /\ pets[id] = Null
        /\ req[w1].op = "update_pet" /\ req[w1].pc = "done" /\ req[w1].pid = id
        /\ req[w1].status = NotFound
        /\ req[w2].op = "create_mood_entry" /\ req[w2].pc = "done"
        /\ req[w2].pid = id /\ req[w2].status = OK
        /\ mood_entries = <<id>>

\* C9: with get-shop calls one after another, the catalog is never more than
\* the 5 default items, each once, and every call returns exactly those 5.
C9_ShopSeededOnce ==
    /\ \E k \in 0..Len(default_items) : shop_items = SubSeq(default_items, 1, k)
    /\ \A w \in Workers :
          (req[w].op = "get_shop_items" /\ req[w].pc = "done") =>
              /\ req[w].items = default_items
              /\ shop_items = default_items

\* a call that found the catalog populated (it seeded nothing) has returned
\* the 5 items
C9_Witness ==
    \E w \in Workers :
        /\ req[w].op = "get_shop_items" /\ req[w].pc = "done"
        /\ req[w].n = 0
        /\ req[w].items = default_items

CoinGain(op) == IF op = "feed_pet" THEN 5 ELSE IF op = "play_with_pet" THEN 8 ELSE 12
ExpGain(op) == IF op = "feed_pet" THEN 10 ELSE IF op = "play_with_pet" THEN 15 ELSE 25

\* C10: when two feed/play/train requests have read the same pet and both
\* have written, the stored coins and experience are what was read plus the
\* gain of one of them only: the gain of the other is lost.
C10_LostUpdate ==
    \A w1, w2 \in Workers :
        (/\ w1 # w2
         /\ req[w1].op \in Actions /\ req[w1].pc = "updated"
         /\ req[w2].op \in Actions /\ req[w2].pc = "updated"
         /\ req[w1].pid = req[w2].pid
         /\ req[w1].pet = req[w2].pet)
        => \E w \in {w1, w2} :
              /\ pets[req[w].pid].coins = req[w].pet.coins + CoinGain(req[w].op)
              /\ pets[req[w].pid].experience = req[w].pet.experience + ExpGain(req[w].op)

\* a feed and a train read the same pet; the train stored experience +25 and
\* coins +12, then the feed's write lowered them to +10 and +5
C10_Witness ==
    \E w1, w2 \in Workers :
        /\ Written(w1, "feed_pet") /\ Written(w2, "train_pet")
        /\ req[w1].pid = req[w2].pid
        /\ req[w1].pet = req[w2].pet
        /\ pets[req[w1].pid].experience = req[w1].pet.experience + 10
        /\ pets[req[w1].pid].coins = req[w1].pet.coins + 5

====
